---- MODULE Spec2Model ----
(***************************************************************************)
(* Model of siemens_udt_converter: the parser of TIA Portal UDT exports    *)
(* (src/src/udt.rs), the L5X emitter (src/src/l5x.rs), and of main         *)
(* (src/src/main.rs) its inline member loop and the step that hands the    *)
(* last UDT to the emitter.                                                *)
(*                                                                         *)
(* Text is modelled as sequences of one-character strings wherever the     *)
(* code looks inside it (type names, qualifier values, array bounds);      *)
(* names that the code only copies or concatenates are TLA+ strings.       *)
(* Option<T> is a sequence of length 0 (None) or 1 (Some).                 *)
(*                                                                         *)
(* pc, content, udts, target_nums, parent_udt, out and lim are the state   *)
(* of a conversion run; type_in and type_out are the argument and the      *)
(* successive results of convert_type when it is exercised on its own;     *)
(* passed_over lists the UDT blocks of the input text that the UDT matcher *)
(* found no match on.                                                      *)
(***************************************************************************)
EXTENDS Integers, Sequences, FiniteSets, TLC

VARIABLES pc, content, udts, target_nums, parent_udt, out, lim, type_in, type_out, passed_over

vars == <<pc, content, udts, target_nums, parent_udt, out, lim, type_in, type_out, passed_over>>

(***************************************************************************)
(* Bounds of the explored inputs.                                          *)
(***************************************************************************)
MaxUdts == 3
MaxMultiBools == 3
MaxDeepBools == 17
MaxOther == 1
MaxHi == 65
MaxTokens == 5
MaxCalls == 2
MaxBad == 1

(***************************************************************************)
(* Option and text helpers.                                                *)
(***************************************************************************)
None == <<>>

Some(x) == <<x>>

IsSome(o) == Len(o) = 1

IsNone(o) == Len(o) = 0

Unwrap(o) == o[1]

LowerAlpha ==
  <<"a","b","c","d","e","f","g","h","i","j","k","l","m",
    "n","o","p","q","r","s","t","u","v","w","x","y","z">>

UpperAlpha ==
  <<"A","B","C","D","E","F","G","H","I","J","K","L","M",
    "N","O","P","Q","R","S","T","U","V","W","X","Y","Z">>

Digits == <<"0","1","2","3","4","5","6","7","8","9">>

IndexIn(c, s) == IF \E i \in 1..Len(s) : s[i] = c
                 THEN CHOOSE i \in 1..Len(s) : s[i] = c
                 ELSE 0

\* char::to_uppercase / to_lowercase on the letters; other characters are kept.
UpperOf == [c \in {LowerAlpha[i] : i \in 1..26} |-> UpperAlpha[IndexIn(c, LowerAlpha)]]

LowerOf == [c \in {UpperAlpha[i] : i \in 1..26} |-> LowerAlpha[IndexIn(c, UpperAlpha)]]

to_upper_char(c) == IF c \in DOMAIN UpperOf THEN UpperOf[c] ELSE c

to_lower_char(c) == IF c \in DOMAIN LowerOf THEN LowerOf[c] ELSE c

to_uppercase(s) == [i \in 1..Len(s) |-> to_upper_char(s[i])]

to_lowercase(s) == [i \in 1..Len(s) |-> to_lower_char(s[i])]

\* str::contains: pat occurs in s as a contiguous substring.
contains(s, pat) ==
  \E i \in 0..(Len(s) - Len(pat)) : \A j \in 1..Len(pat) : s[i + j] = pat[j]

\* str::find for a one-character pattern: 0-based offset of the first hit, -1 if none.
find(s, c) == IF \E i \in 1..Len(s) : s[i] = c
              THEN (CHOOSE i \in 1..Len(s) : s[i] = c /\ \A j \in 1..(i - 1) : s[j] # c) - 1
              ELSE -1

\* &s[from..to]: characters at 0-based offsets from .. to-1.
slice(s, from, to) == [i \in 1..(to - from) |-> s[from + i]]

\* str::parse::<isize>() of a run of decimal digits.
RECURSIVE parse_int(_)
parse_int(ds) == IF Len(ds) = 0 THEN 0
                 ELSE 10 * parse_int(SubSeq(ds, 1, Len(ds) - 1)) + (IndexIn(ds[Len(ds)], Digits) - 1)

(***************************************************************************)
(* Type names.                                                             *)
(***************************************************************************)
T_BYTE == <<"B","Y","T","E">>
T_WORD == <<"W","O","R","D">>
T_DWORD == <<"D","W","O","R","D">>
T_LWORD == <<"L","W","O","R","D">>
T_TIME == <<"T","I","M","E">>
T_SINT == <<"S","I","N","T">>
T_INT == <<"I","N","T">>
T_DINT == <<"D","I","N","T">>
T_LINT == <<"L","I","N","T">>
T_USINT == <<"U","S","I","N","T">>
T_UINT == <<"U","I","N","T">>
T_UDINT == <<"U","D","I","N","T">>
T_ULINT == <<"U","L","I","N","T">>
T_REAL == <<"R","E","A","L">>
T_LREAL == <<"L","R","E","A","L">>
T_STRING == <<"S","T","R","I","N","G">>
T_CHAR == <<"C","H","A","R">>
T_DTL == <<"D","T","L">>
T_LDT == <<"L","D","T">>
T_BOOL == <<"B","O","O","L">>
T_BIT == <<"B","I","T">>

\* reformat_string aborts when "STRING[" is present without a "]", or when the
\* first "]" lies before offset 7 (the slice [7..end] is then out of order).
reformat_string_panics(input) ==
  /\ contains(to_uppercase(input), T_STRING \o <<"[">>)
  /\ find(input, "]") < 7

reformat_string(input) ==
  IF contains(to_uppercase(input), T_STRING \o <<"[">>)
  THEN T_STRING \o <<"_">> \o slice(input, 7, find(input, "]"))
  ELSE input

numeric_type(inp) ==
  to_uppercase(inp) \in {T_REAL, T_SINT, T_INT, T_DINT, T_LINT, T_USINT, T_UINT,
                         T_UDINT, T_ULINT, T_BOOL, T_LREAL, T_BIT}

char_type(inp) == to_uppercase(inp) = T_CHAR \/ contains(T_STRING, to_uppercase(inp))

ConvertTable ==
  <<  <<T_BYTE, T_USINT>>, <<T_WORD, T_UINT>>, <<T_DWORD, T_UDINT>>, <<T_LWORD, T_ULINT>>,
      <<T_TIME, T_DINT>>, <<T_SINT, T_SINT>>, <<T_INT, T_INT>>, <<T_DINT, T_DINT>>,
      <<T_LINT, T_LINT>>, <<T_USINT, T_USINT>>, <<T_UINT, T_UINT>>, <<T_UDINT, T_UDINT>>,
      <<T_ULINT, T_ULINT>>, <<T_REAL, T_REAL>>, <<T_LREAL, T_LREAL>>, <<T_STRING, T_STRING>>,
      <<T_CHAR, T_CHAR>>, <<T_DTL, T_LDT>> >>

\* convert_type: the call aborts when the name is not in the table and
\* reformat_string aborts on it.
convert_type_panics(input) ==
  /\ ~\E i \in 1..Len(ConvertTable) : ConvertTable[i][1] = to_uppercase(input)
  /\ reformat_string_panics(input)

\* The table with one more row, LDT back to DTL.
convert_type_ldt_to_dtl(input) ==
  IF to_uppercase(input) = T_LDT THEN T_DTL
  ELSE IF \E i \in 1..Len(ConvertTable) : ConvertTable[i][1] = to_uppercase(input)
  THEN ConvertTable[CHOOSE i \in 1..Len(ConvertTable) : ConvertTable[i][1] = to_uppercase(input)][2]
  ELSE reformat_string(input)

convert_type(input) ==
  IF \E i \in 1..Len(ConvertTable) : ConvertTable[i][1] = to_uppercase(input)
  THEN ConvertTable[CHOOSE i \in 1..Len(ConvertTable) : ConvertTable[i][1] = to_uppercase(input)][2]
  ELSE reformat_string(input)

(***************************************************************************)
(* Input text.  A member declaration line                                  *)
(*     name [{ key := 'val'[;] ... }] : [Array[lo..hi] of] type; [// desc] *)
(* is a record: quals is the qualifier block (semi: a ';' follows the      *)
(* closing quote of that qualifier), arr the digits of the Array clause,   *)
(* type the characters of the type name.  The member's name is given by    *)
(* its position in the body.                                               *)
(***************************************************************************)
Qual(key, val, semi) == [key |-> key, val |-> val, semi |-> semi]

Decl(quals, arr, type, desc) == [quals |-> quals, arr |-> arr, type |-> type, desc |-> desc]

MemberName(i) == "m" \o ToString(i)

UdtName(i) == "Type" \o UpperAlpha[i]

\* The characters of the class [a-z1-9_] under case_insensitive(true).
TypeChars ==
  {LowerAlpha[i] : i \in 1..26} \cup {UpperAlpha[i] : i \in 1..26}
    \cup {Digits[i] : i \in 2..10} \cup {"_"}

\* build_member_regex finds a match on the line: the type name must be a run
\* of [a-z1-9_] reaching up to the ';' (or ':='), and an Array clause must be
\* [[:digit:]]+ ".." [[:digit:]]+ between its brackets.
member_matches(decl) ==
  /\ \A i \in 1..Len(decl.type) : decl.type[i] \in TypeChars
  /\ IsSome(decl.arr) =>
       \A b \in 1..2 :
         /\ Len(Unwrap(decl.arr)[b]) >= 1
         /\ \A i \in 1..Len(Unwrap(decl.arr)[b]) :
              \E k \in 1..10 : Digits[k] = Unwrap(decl.arr)[b][i]

\* The named groups of build_member_regex on a matching line.  The three
\* qualifier groups are optional and tried in this order at the start of the
\* block: ExternalAccessible and ExternalVisible only when closed by "';",
\* ExternalWritable when closed by "'"; whatever follows is eaten by [\s\S]*?}.
\* bound_upper is a repeated one-digit group: it keeps the last digit.
captures(decl, idx) ==
  LET q == decl.quals
      hasAcs == Len(q) >= 1 /\ q[1].key = "ExternalAccessible" /\ q[1].semi
      p1 == IF hasAcs THEN 2 ELSE 1
      hasVis == Len(q) >= p1 /\ q[p1].key = "ExternalVisible" /\ q[p1].semi
      p2 == IF hasVis THEN p1 + 1 ELSE p1
      hasWrt == Len(q) >= p2 /\ q[p2].key = "ExternalWritable"
  IN [member_name |-> MemberName(idx),
      ext_acs |-> IF hasAcs THEN Some(q[1].val) ELSE None,
      ext_vis |-> IF hasVis THEN Some(q[p1].val) ELSE None,
      ext_wrt |-> IF hasWrt THEN Some(q[p2].val) ELSE None,
      bound_lower |-> IF IsSome(decl.arr) THEN Some(Unwrap(decl.arr)[1]) ELSE None,
      bound_upper |-> IF IsSome(decl.arr)
                      THEN Some(<<Unwrap(decl.arr)[2][Len(Unwrap(decl.arr)[2])]>>)
                      ELSE None,
      member_type |-> decl.type,
      member_description |-> decl.desc]

(***************************************************************************)
(* Model builder (udt.rs).                                                 *)
(***************************************************************************)
UdtMember(name, description, data_type, array_bounds, external_read, external_write, hidden, target, bit_num) ==
  [name |-> name, description |-> description, data_type |-> data_type,
   array_bounds |-> array_bounds, external_read |-> external_read,
   external_write |-> external_write, hidden |-> hidden, target |-> target,
   bit_num |-> bit_num]

Udt(name, description, version, members) ==
  [name |-> name, description |-> description, version |-> version, members |-> members]

BoolTargets_new == [target_num |-> 0, bit_num |-> 0]

\* inc rolling over one bit late.
inc_rolls_after_eight(self) ==
  IF self.bit_num >= 8
  THEN [target_num |-> self.target_num + 1, bit_num |-> 0]
  ELSE [self EXCEPT !.bit_num = self.bit_num + 1]

\* inc wrapping bit_num without moving on to the next target.
inc_keeps_target(self) ==
  IF self.bit_num >= 7
  THEN [self EXCEPT !.bit_num = 0]
  ELSE [self EXCEPT !.bit_num = self.bit_num + 1]

inc(self) == IF self.bit_num >= 7
             THEN [target_num |-> self.target_num + 1, bit_num |-> 0]
             ELSE [self EXCEPT !.bit_num = self.bit_num + 1]

\* The decimal digits of isize::MAX on a 64-bit target.
IsizeMaxDigits ==
  <<"9","2","2","3","3","7","2","0","3","6","8","5","4","7","7","5","8","0","7">>

RECURSIVE StripZeros(_)
StripZeros(ds) == IF Len(ds) >= 1 /\ ds[1] = "0" THEN StripZeros(Tail(ds)) ELSE ds

\* str::parse::<isize>() returns Err on a run of digits above isize::MAX.
parse_fails(ds) ==
  LET s == StripZeros(ds)
  IN \/ Len(s) > Len(IsizeMaxDigits)
     \/ /\ Len(s) = Len(IsizeMaxDigits)
        /\ \E i \in 1..Len(s) :
             /\ IndexIn(s[i], Digits) > IndexIn(IsizeMaxDigits[i], Digits)
             /\ \A j \in 1..(i - 1) : s[j] = IsizeMaxDigits[j]

\* get_bounds aborts: expect("Lower bound invalid format") / ("Upper ...").
get_bounds_panics(member_str) ==
  \/ IsSome(member_str.bound_lower) /\ parse_fails(Unwrap(member_str.bound_lower))
  \/ IsSome(member_str.bound_upper) /\ parse_fails(Unwrap(member_str.bound_upper))

get_bounds(member_str) ==
  IF IsSome(member_str.bound_lower) /\ IsSome(member_str.bound_upper)
  THEN Some(<<parse_int(Unwrap(member_str.bound_lower)), parse_int(Unwrap(member_str.bound_upper))>>)
  ELSE None

get_member_description(member_str) == member_str.member_description

F_false == <<"f","a","l","s","e">>

external_write(member_str) ==
  IF IsSome(member_str.ext_wrt) THEN to_lowercase(Unwrap(member_str.ext_wrt)) # F_false ELSE TRUE

external_read(member_str) ==
  IF IsSome(member_str.ext_vis) THEN to_lowercase(Unwrap(member_str.ext_vis)) # F_false ELSE TRUE

\* Vec::insert(index, element), index counted from 0.
InsertAt(s, index, x) == SubSeq(s, 1, index) \o <<x>> \o SubSeq(s, index + 1, Len(s))

\* udts.last_mut().members = f(members)
WithLastMembers(us, members) == [us EXCEPT ![Len(us)].members = members]

\* The storage member left externally readable.
HiddenMember_readable(target_name) ==
  UdtMember(target_name, None, T_SINT, None, TRUE, FALSE, TRUE, None, None)

HiddenMember(target_name) ==
  UdtMember(target_name, None, T_SINT, None, FALSE, FALSE, TRUE, None, None)

\* get_target: the catalog after the call and the returned target.
get_target(member_str, us, tn) ==
  LET data_type == to_uppercase(convert_type(member_str.member_type))
      base == "ZZZZZZZZZZ" \o us[Len(us)].name
      scalar == data_type = T_BOOL /\ IsNone(get_bounds(member_str))
      target_name == IF scalar THEN base \o ToString(tn.target_num) ELSE base
  IN [udts |-> IF scalar /\ tn.bit_num = 0
               THEN WithLastMembers(us, InsertAt(us[Len(us)].members, tn.target_num,
                                                 HiddenMember(target_name)))
               ELSE us,
      target |-> IF data_type = T_BOOL THEN Some(target_name) ELSE None]

\* get_members pushing the storage member after the boolean it backs.
get_members_hidden_last(member_str, us, tn) ==
  LET data_type == convert_type(member_str.member_type)
      bounds == get_bounds(member_str)
      gt == get_target(member_str, us, tn)
      inserted == Len(gt.udts[Len(us)].members) > Len(us[Len(us)].members)
      m == UdtMember(member_str.member_name,
                     get_member_description(member_str),
                     data_type,
                     bounds,
                     external_read(member_str),
                     external_write(member_str),
                     FALSE,
                     gt.target,
                     IF to_uppercase(data_type) = T_BOOL /\ IsNone(bounds)
                     THEN Some(tn.bit_num) ELSE None)
  IN [udts |-> WithLastMembers(us, us[Len(us)].members \o <<m>>
                                     \o (IF inserted THEN <<HiddenMember(Unwrap(gt.target))>>
                                         ELSE <<>>)),
      target_nums |-> IF IsSome(gt.target) THEN inc(tn) ELSE tn]

\* get_members: the catalog and the counters after one matched declaration.
get_members(member_str, us, tn) ==
  LET data_type == convert_type(member_str.member_type)
      bounds == get_bounds(member_str)
      gt == get_target(member_str, us, tn)
      m == UdtMember(member_str.member_name,
                     get_member_description(member_str),
                     data_type,
                     bounds,
                     external_read(member_str),
                     external_write(member_str),
                     FALSE,
                     gt.target,
                     IF to_uppercase(data_type) = T_BOOL /\ IsNone(bounds)
                     THEN Some(tn.bit_num) ELSE None)
  IN [udts |-> WithLastMembers(gt.udts, Append(gt.udts[Len(gt.udts)].members, m)),
      target_nums |-> IF IsSome(gt.target) THEN inc(tn) ELSE tn]

(***************************************************************************)
(* The member loop written inline in main (main.rs), with its two local    *)
(* counters target_num and bit_num.                                        *)
(***************************************************************************)
\* The roll-over one bit later.
main_rollover_at_nine(tn) ==
  IF tn.bit_num = 9 THEN [target_num |-> tn.target_num + 1, bit_num |-> 0] ELSE tn

\* if bit_num == 8 { bit_num = 0; target_num += 1; }
main_rollover(tn) ==
  IF tn.bit_num = 8 THEN [target_num |-> tn.target_num + 1, bit_num |-> 0] ELSE tn

\* One pass of the loop body: the catalog and the counters after it.
main_member_loop(member_str, us, tn) ==
  LET data_type == convert_type(member_str.member_type)
      bounds == get_bounds(member_str)
      base == "ZZZZZZZZZZ" \o us[Len(us)].name
      scalar == to_uppercase(data_type) = T_BOOL /\ IsNone(bounds)
      tn1 == IF scalar THEN main_rollover(tn) ELSE tn
      target_name == IF scalar THEN base \o ToString(tn1.target_num) ELSE base
      us1 == IF scalar /\ tn1.bit_num = 0
             THEN WithLastMembers(us, InsertAt(us[Len(us)].members, tn1.target_num,
                                               HiddenMember(target_name)))
             ELSE us
      target == IF to_uppercase(data_type) = T_BOOL THEN Some(target_name) ELSE None
      m == UdtMember(member_str.member_name,
                     member_str.member_description,
                     data_type,
                     bounds,
                     external_read(member_str),
                     external_write(member_str),
                     FALSE,
                     target,
                     IF scalar THEN Some(tn1.bit_num) ELSE None)
  IN [udts |-> WithLastMembers(us1, Append(us1[Len(us1)].members, m)),
      target_nums |-> IF IsSome(target) THEN [tn1 EXCEPT !.bit_num = tn1.bit_num + 1] ELSE tn1]

\* The loop over the first k declaration lines of one UDT body: the UDT is
\* pushed with no members, the counters start at 0, and the lines the member
\* matcher finds no match on are passed over.
RECURSIVE main_members(_, _, _)
main_members(name, body, k) ==
  IF k = 0
  THEN [udts |-> <<Udt(name, None, "0.1", <<>>)>>, target_nums |-> [target_num |-> 0, bit_num |-> 0]]
  ELSE LET prev == main_members(name, body, k - 1)
       IN IF member_matches(body[k])
          THEN main_member_loop(captures(body[k], k), prev.udts, prev.target_nums)
          ELSE prev

(***************************************************************************)
(* Emitter (l5x.rs).  The XML tree is a record: the root's TargetName and  *)
(* the DataType elements in document order; each DataType element holds    *)
(* its Member elements (their attributes) and its Dependencies block.      *)
(***************************************************************************)
bool_to_string(b) == IF b THEN "true" ELSE "false"

\* usize::div_ceil
div_ceil(x, d) == (x + d - 1) \div d

\* Dimension counted from the lower bound.
dimension_span(member) ==
  IF IsSome(member.array_bounds)
  THEN IF to_uppercase(member.data_type) = T_BOOL
       THEN div_ceil(Unwrap(member.array_bounds)[2] - Unwrap(member.array_bounds)[1] + 1, 32) * 32
       ELSE Unwrap(member.array_bounds)[2] - Unwrap(member.array_bounds)[1] + 1
  ELSE 0

\* The Dimension value of write_members, before to_string.  Bounds come from
\* runs of decimal digits, so dim.1 + 1 is positive and the cast to usize
\* keeps it.
dimension(member) ==
  IF IsSome(member.array_bounds)
  THEN IF to_uppercase(member.data_type) = T_BOOL
       THEN div_ceil(Unwrap(member.array_bounds)[2] + 1, 32) * 32
       ELSE Unwrap(member.array_bounds)[2] + 1
  ELSE 0

external_access(member) ==
  IF member.external_write THEN "Read/Write"
  ELSE IF member.external_read THEN "Read Only"
  ELSE "None"

emitted_type(member) ==
  IF IsNone(member.array_bounds) /\ to_uppercase(member.data_type) = T_BOOL
  THEN T_BIT
  ELSE member.data_type

radix(data_type) ==
  IF numeric_type(data_type) THEN "Decimal"
  ELSE IF char_type(data_type) THEN "Char"
  ELSE "NullType"

\* One Member element of write_members.
write_member(member) ==
  LET scalar_bool == IsNone(member.array_bounds) /\ to_uppercase(member.data_type) = T_BOOL
  IN [Name |-> member.name,
      DataType |-> emitted_type(member),
      Dimension |-> ToString(dimension(member)),
      Radix |-> radix(emitted_type(member)),
      Hidden |-> bool_to_string(member.hidden),
      ExternalAccess |-> external_access(member),
      Target |-> IF scalar_bool THEN Some(Unwrap(member.target)) ELSE None,
      BitNumber |-> IF scalar_bool
                    THEN Some(IF IsSome(member.bit_num) THEN ToString(Unwrap(member.bit_num)) ELSE "")
                    ELSE None,
      Description |-> member.description]

write_members(udt) == [i \in 1..Len(udt.members) |-> write_member(udt.members[i])]

write_data_type(udt) ==
  [Name |-> udt.name, Description |-> udt.description,
   Members |-> write_members(udt), Dependencies |-> None]

\* The dependencies listed last to first.
write_dependencies_reversed(us) == [i \in 1..Len(us) |-> us[Len(us) + 1 - i].name]

write_dependencies(us) == [i \in 1..Len(us) |-> us[i].name]

write_parent_data_type(us, parent) ==
  [Name |-> parent.name, Description |-> parent.description,
   Members |-> write_members(parent), Dependencies |-> Some(write_dependencies(us))]

write_all_data_types(us, parent) ==
  <<write_parent_data_type(us, parent)>> \o [i \in 1..Len(us) |-> write_data_type(us[i])]

create_l5x(us, parent) ==
  [TargetName |-> parent.name, DataTypes |-> write_all_data_types(us, parent)]

(***************************************************************************)
(* The explored inputs.                                                    *)
(***************************************************************************)
N_Bool == <<"B","o","o","l">>
N_Int == <<"I","n","t">>
N_Byte == <<"B","y","t","e">>
N_Pump == <<"P","u","m","p">>
N_String20 == <<"S","T","R","I","N","G","[","2","0","]">>
N_String_25 == <<"S","T","R","I","N","G","_","2","5">>
N_String == <<"S","t","r","i","n","g">>
N_Char == <<"C","h","a","r">>
N_Ring == <<"R","i","n","g">>

A_0_3 == Some(<< <<"0">>, <<"3">> >>)
A_1_15 == Some(<< <<"1">>, <<"1","5">> >>)
\* Array[0..] and Array[99999999999999999999..3]
A_0_open == Some(<< <<"0">>, <<>> >>)
A_huge_3 == Some(<< [i \in 1..20 |-> "9"], <<"3">> >>)

V_FALSE == <<"F","A","L","S","E">>
V_False == <<"F","a","l","s","e">>
V_true == <<"t","r","u","e">>

Q_none == <<>>
Q_wrt == <<Qual("ExternalWritable", V_FALSE, FALSE)>>
Q_vis == <<Qual("ExternalVisible", V_False, FALSE)>>
Q_vis_wrt == <<Qual("ExternalVisible", V_False, TRUE), Qual("ExternalWritable", V_False, FALSE)>>
Q_wrt_vis == <<Qual("ExternalWritable", V_False, TRUE), Qual("ExternalVisible", V_False, FALSE)>>
Q_all == <<Qual("ExternalAccessible", V_False, TRUE), Qual("ExternalVisible", V_FALSE, TRUE),
           Qual("ExternalWritable", V_true, FALSE)>>

D_Bool == Decl(Q_none, None, N_Bool, None)
D_Int == Decl(Q_none, None, N_Int, None)
D_BoolArr == Decl(Q_none, A_0_3, N_Bool, None)
D_IntArr == Decl(Q_none, A_1_15, N_Int, None)
D_BoolDesc == Decl(Q_none, None, N_Bool, Some("flag one"))
D_IntArrOpen == Decl(Q_none, A_0_open, N_Int, None)
D_IntArrHuge == Decl(Q_none, A_huge_3, N_Int, None)

\* Declarations interleaved with the plain scalar booleans.
OtherDecls == {D_Int, D_BoolArr, D_IntArr}

\* Declarations of the inputs with members of any explored form: every
\* qualifier block and every Array clause on every type name.
RichTypes ==
  {N_Bool, T_BOOL, N_Int, N_Byte, N_Pump, N_String20, N_String_25, N_String, N_Char, N_Ring}

RichDecls ==
  {Decl(q, None, t, None) : q \in {Q_none, Q_wrt, Q_vis, Q_vis_wrt, Q_wrt_vis, Q_all}, t \in RichTypes}
    \cup {Decl(Q_none, a, t, None) : a \in {A_0_3, A_1_15}, t \in RichTypes}
    \cup {D_BoolDesc, D_IntArrOpen, D_IntArrHuge}

\* Input families: several UDTs with short bodies, one UDT with a long run of
\* scalar booleans, one UDT with members of any explored form among blocks
\* that lack the VERSION line.
Profiles ==
  {[udts |-> MaxUdts, bools |-> MaxMultiBools, other |-> MaxOther, rich |-> FALSE, bad |-> 0],
   [udts |-> 1, bools |-> MaxDeepBools, other |-> MaxOther, rich |-> FALSE, bad |-> 0],
   [udts |-> 1, bools |-> 0, other |-> MaxOther, rich |-> TRUE, bad |-> MaxBad]}

RECURSIVE AllDecls(_)
AllDecls(blocks) == IF Len(blocks) = 0 THEN <<>>
                    ELSE AllDecls(SubSeq(blocks, 1, Len(blocks) - 1)) \o blocks[Len(blocks)].body

IsPlain(d) == d = D_Bool

NumBools == Len(SelectSeq(AllDecls(content), IsPlain))

NumOthers == Len(AllDecls(content)) - NumBools

\* The declaration lines the next line of the input is drawn from.
DeclChoices ==
  IF lim.rich
  THEN IF Len(AllDecls(content)) < lim.other THEN RichDecls ELSE {}
  ELSE (IF NumBools < lim.bools THEN {D_Bool} ELSE {})
         \cup (IF NumOthers < lim.other THEN OtherDecls ELSE {})

AppendDecl(d) == [content EXCEPT ![Len(content)].body = Append(@, d)]

(***************************************************************************)
(* The run: get_udts over the input, main's pop of the parent, create_l5x. *)
(***************************************************************************)
Init ==
  /\ pc = "get_udts"
  /\ content = <<>>
  /\ udts = <<>>
  /\ target_nums = BoolTargets_new
  /\ parent_udt = None
  /\ out = None
  /\ lim \in Profiles
  /\ type_in = <<>>
  /\ type_out = <<>>
  /\ passed_over = <<>>

\* get_udts, outer loop: the next UDT block of the input is matched.
BeginUdt ==
  /\ pc = "get_udts"
  /\ Len(udts) < lim.udts
  /\ content' = Append(content, [name |-> UdtName(Len(content) + 1), body |-> <<>>])
  /\ udts' = Append(udts, Udt(UdtName(Len(content) + 1), None, "0.1", <<>>))
  /\ target_nums' = BoolTargets_new
  /\ UNCHANGED <<pc, parent_udt, out, lim, type_in, type_out, passed_over>>

\* A TYPE block without the VERSION line: build_udt_regex requires the
\* VERSION group, so captures_iter finds no match on the block and passes on.
SkipUdt ==
  /\ pc = "get_udts"
  /\ Len(passed_over) < lim.bad
  /\ passed_over' = Append(passed_over, "Bad" \o ToString(Len(passed_over) + 1))
  /\ UNCHANGED <<pc, content, udts, target_nums, parent_udt, out, lim, type_in, type_out>>

\* get_udts, inner loop: the next declaration line of the body is matched.
GetMembers ==
  /\ pc = "get_udts"
  /\ Len(udts) >= 1
  /\ \E d \in DeclChoices :
       /\ member_matches(d)
       /\ ~get_bounds_panics(captures(d, Len(content[Len(content)].body) + 1))
       /\ LET r == get_members(captures(d, Len(content[Len(content)].body) + 1), udts, target_nums)
          IN /\ udts' = r.udts
             /\ target_nums' = r.target_nums
       /\ content' = AppendDecl(d)
  /\ UNCHANGED <<pc, parent_udt, out, lim, type_in, type_out, passed_over>>

\* get_members aborts in get_bounds, before the catalog is touched.
GetMembersPanic ==
  /\ pc = "get_udts"
  /\ Len(udts) >= 1
  /\ \E d \in DeclChoices :
       /\ member_matches(d)
       /\ get_bounds_panics(captures(d, Len(content[Len(content)].body) + 1))
       /\ content' = AppendDecl(d)
  /\ pc' = "panic"
  /\ UNCHANGED <<udts, target_nums, parent_udt, out, lim, type_in, type_out, passed_over>>

\* A declaration line the member matcher finds no match on: captures_iter
\* passes over it.
SkipMember ==
  /\ pc = "get_udts"
  /\ Len(udts) >= 1
  /\ \E d \in DeclChoices :
       /\ ~member_matches(d)
       /\ content' = AppendDecl(d)
  /\ UNCHANGED <<pc, udts, target_nums, parent_udt, out, lim, type_in, type_out, passed_over>>

\* get_udts returns the catalog.
GetUdtsReturn ==
  /\ pc = "get_udts"
  /\ pc' = "parsed"
  /\ UNCHANGED <<content, udts, target_nums, parent_udt, out, lim, type_in, type_out, passed_over>>

\* main: let parent_udt = udts.pop().unwrap();
PopParent ==
  /\ pc = "parsed"
  /\ Len(udts) >= 1
  /\ parent_udt' = Some(udts[Len(udts)])
  /\ udts' = SubSeq(udts, 1, Len(udts) - 1)
  /\ pc' = "popped"
  /\ UNCHANGED <<content, target_nums, out, lim, type_in, type_out, passed_over>>

\* unwrap() on an empty catalog aborts the run.
PopParentPanic ==
  /\ pc = "parsed"
  /\ Len(udts) = 0
  /\ pc' = "panic"
  /\ UNCHANGED <<content, udts, target_nums, parent_udt, out, lim, type_in, type_out, passed_over>>

CreateL5x ==
  /\ pc = "popped"
  /\ out' = Some(create_l5x(udts, Unwrap(parent_udt)))
  /\ pc' = "done"
  /\ UNCHANGED <<content, udts, target_nums, parent_udt, lim, type_in, type_out, passed_over>>

Next ==
  \/ BeginUdt
  \/ SkipUdt
  \/ GetMembers
  \/ GetMembersPanic
  \/ SkipMember
  \/ GetUdtsReturn
  \/ PopParent
  \/ PopParentPanic
  \/ CreateL5x

Spec == Init /\ [][Next]_vars

(***************************************************************************)
(* create_l5x on its own: the catalog is any parent UDT with one member.   *)
(***************************************************************************)
L5xMembers ==
  {UdtMember("m1", None, t, b, er, ew, FALSE,
             IF to_uppercase(t) = T_BOOL THEN Some("ZZZZZZZZZZTypeA0") ELSE None,
             IF to_uppercase(t) = T_BOOL /\ IsNone(b) THEN Some(0) ELSE None) :
     t \in {T_BOOL, N_Bool, T_INT, N_Pump},
     b \in {None} \cup {Some(<<lo, hi>>) : lo \in 0..1, hi \in 0..MaxHi},
     er \in BOOLEAN, ew \in BOOLEAN}

InitL5x ==
  /\ pc = "popped"
  /\ content = <<>>
  /\ udts = <<>>
  /\ target_nums = BoolTargets_new
  /\ parent_udt \in {Some(Udt(UdtName(1), None, "0.1", <<m>>)) : m \in L5xMembers}
  /\ out = None
  /\ lim = [udts |-> 1, bools |-> 0, other |-> 0, rich |-> FALSE, bad |-> 0]
  /\ type_in = <<>>
  /\ type_out = <<>>
  /\ passed_over = <<>>

NextL5x == CreateL5x

SpecL5x == InitL5x /\ [][NextL5x]_vars

(***************************************************************************)
(* convert_type on its own: it is applied to a type name, then to its own  *)
(* result.  The names are the rows of the table in both cases, the type    *)
(* names of the explored inputs, and every concatenation of up to          *)
(* MaxTokens pieces of a bracketed string type.                            *)
(***************************************************************************)
NameTokens == <<T_STRING, N_String, <<"[">>, <<"]">>, <<"2">>>>

RECURSIVE TokenNames(_)
TokenNames(n) ==
  IF n = 0 THEN {<<>>}
  ELSE LET shorter == TokenNames(n - 1)
       IN shorter \cup {s \o NameTokens[i] : s \in shorter, i \in 1..Len(NameTokens)}

TypeNames ==
  TokenNames(MaxTokens)
    \cup {ConvertTable[i][1] : i \in 1..Len(ConvertTable)}
    \cup {to_lowercase(ConvertTable[i][1]) : i \in 1..Len(ConvertTable)}
    \cup {T_LDT, T_BOOL, N_Bool, N_Int, N_Byte, N_Pump, N_Ring, N_String_25, N_String20}

\* The argument of the next call: the name given, then the last result.
NextArgument == IF Len(type_out) = 0 THEN type_in ELSE type_out[Len(type_out)]

InitConvert ==
  /\ pc = "convert"
  /\ content = <<>>
  /\ udts = <<>>
  /\ target_nums = BoolTargets_new
  /\ parent_udt = None
  /\ out = None
  /\ lim = [udts |-> 0, bools |-> 0, other |-> 0, rich |-> FALSE, bad |-> 0]
  /\ type_in \in TypeNames
  /\ type_out = <<>>
  /\ passed_over = <<>>

\* convert_type returns a name.
ConvertType ==
  /\ pc = "convert"
  /\ Len(type_out) < MaxCalls
  /\ ~convert_type_panics(NextArgument)
  /\ type_out' = Append(type_out, convert_type(NextArgument))
  /\ UNCHANGED <<pc, content, udts, target_nums, parent_udt, out, lim, type_in, passed_over>>

\* expect("Invalid STRING type format") or the slice [7..end] aborts.
ConvertTypePanic ==
  /\ pc = "convert"
  /\ Len(type_out) < MaxCalls
  /\ convert_type_panics(NextArgument)
  /\ pc' = "panic"
  /\ UNCHANGED <<content, udts, target_nums, parent_udt, out, lim, type_in, type_out, passed_over>>

NextConvert ==
  \/ ConvertType
  \/ ConvertTypePanic

SpecConvert == InitConvert /\ [][NextConvert]_vars

(***************************************************************************)
(* Vocabulary of the properties.                                           *)
(***************************************************************************)
\* The catalog get_udts built: the dependencies followed by the parent once
\* main has popped it.
Catalog == udts \o parent_udt

Returned == pc = "parsed"

NotHidden(m) == ~m.hidden

IsHidden(m) == m.hidden

\* The members created from declarations, in list order.
Declared(udt) == SelectSeq(udt.members, NotHidden)

\* The declaration lines of a body that the member matcher matches.
Matched(body) == SelectSeq(body, member_matches)

\* What the source text declares.
IsBoolDecl(d) == to_uppercase(d.type) = T_BOOL

IsScalarBoolDecl(d) == IsBoolDecl(d) /\ IsNone(d.arr)

IsBoolArrayDecl(d) == IsBoolDecl(d) /\ IsSome(d.arr)

\* Number of scalar boolean declarations among the first j of a body.
ScalarBoolsBefore(body, j) == Cardinality({i \in 1..j : IsScalarBoolDecl(body[i])})

NumHidden(udt) == Len(SelectSeq(udt.members, IsHidden))

TargetName(udt, t) == "ZZZZZZZZZZ" \o udt.name \o ToString(t)

IsScalarBool(m) == to_uppercase(m.data_type) = T_BOOL /\ IsNone(m.array_bounds)

CeilDiv8(n) == CHOOSE c \in 0..n : 8 * c >= n /\ 8 * (c - 1) < n

(***************************************************************************)
(* C1.  A UDT whose body declares n scalar booleans, interleaved with      *)
(* non-boolean members only, holds exactly ceil(n/8) hidden members, and   *)
(* its k-th scalar boolean (from 0) has bit_num = k mod 8 and the target   *)
(* generated for target_num = k div 8.                                     *)
(***************************************************************************)
C1_Packing ==
  Returned =>
    \A u \in 1..Len(Catalog) :
      LET body == Matched(content[u].body)
          decl == Declared(Catalog[u])
      IN (\A j \in 1..Len(body) : ~IsBoolArrayDecl(body[j])) =>
           /\ Len(decl) = Len(body)
           /\ NumHidden(Catalog[u]) = CeilDiv8(ScalarBoolsBefore(body, Len(body)))
           /\ \A j \in 1..Len(body) :
                IsScalarBoolDecl(body[j]) =>
                  LET k == ScalarBoolsBefore(body, j - 1)
                  IN /\ decl[j].bit_num = Some(k % 8)
                     /\ decl[j].target = Some(TargetName(Catalog[u], k \div 8))

\* Seventeen scalar booleans around a non-boolean member: three hidden members.
C1_Witness ==
  /\ Returned
  /\ \E u \in 1..Len(Catalog) :
       LET body == Matched(content[u].body)
       IN /\ ScalarBoolsBefore(body, Len(body)) = 17
          /\ \E j \in 2..(Len(body) - 1) : ~IsBoolDecl(body[j])
          /\ NumHidden(Catalog[u]) = 3

(***************************************************************************)
(* C2.  Processing a boolean array or a non-boolean member leaves          *)
(* target_num and bit_num as they were.                                    *)
(***************************************************************************)
LastDecl(c) == c[Len(c)].body[Len(c[Len(c)].body)]

\* The step is get_members on one more matched declaration of the current body.
MemberStep ==
  /\ pc = "get_udts"
  /\ Len(content') = Len(content)
  /\ Len(content) >= 1
  /\ Len(content'[Len(content)].body) = Len(content[Len(content)].body) + 1
  /\ member_matches(LastDecl(content'))

C2_CountersFrame ==
  [][(MemberStep /\ ~IsScalarBoolDecl(LastDecl(content'))) => target_nums' = target_nums]_vars

(***************************************************************************)
(* C3.  In the returned catalog target and bit_num are both present or     *)
(* both absent, and present exactly for scalar booleans.                   *)
(***************************************************************************)
C3_TargetBitPaired ==
  Returned =>
    \A u \in 1..Len(Catalog) : \A i \in 1..Len(Catalog[u].members) :
      LET m == Catalog[u].members[i]
      IN /\ IsSome(m.target) <=> IsSome(m.bit_num)
         /\ IsSome(m.target) <=> IsScalarBool(m)

(***************************************************************************)
(* C4.  Hidden members are the synthesized ones: SINT, no bounds, no       *)
(* target, no bit_num, no external access, a generated name; the members   *)
(* made from declarations are exactly the non-hidden ones, in order.       *)
(***************************************************************************)
C4_HiddenSynthetic ==
  Returned =>
    \A u \in 1..Len(Catalog) :
      /\ \A i \in 1..Len(Catalog[u].members) :
           LET m == Catalog[u].members[i]
           IN m.hidden =>
                /\ m.data_type = T_SINT
                /\ m.array_bounds = None
                /\ m.target = None
                /\ m.bit_num = None
                /\ m.external_read = FALSE
                /\ m.external_write = FALSE
                /\ \E t \in 0..Len(Catalog[u].members) : m.name = TargetName(Catalog[u], t)
      /\ Len(Declared(Catalog[u])) = Len(Matched(content[u].body))
      /\ \A j \in 1..Len(Declared(Catalog[u])) :
           \E p \in 1..Len(content[u].body) : Declared(Catalog[u])[j].name = MemberName(p)

\* A returned UDT holding a hidden member and a declared member whose
\* qualifiers switch external access off.
C4_Witness ==
  /\ Returned
  /\ \E u \in 1..Len(Catalog) :
       /\ NumHidden(Catalog[u]) >= 1
       /\ \E i \in 1..Len(Catalog[u].members) :
            /\ ~Catalog[u].members[i].hidden
            /\ ~Catalog[u].members[i].external_write

(***************************************************************************)
(* C5.  The target of every scalar boolean names a hidden member of the    *)
(* same UDT at a lower index.                                              *)
(***************************************************************************)
C5_TargetExists ==
  Returned =>
    \A u \in 1..Len(Catalog) : \A i \in 1..Len(Catalog[u].members) :
      LET m == Catalog[u].members[i]
      IN (~m.hidden /\ IsScalarBool(m)) =>
           \E h \in 1..(i - 1) :
             /\ Catalog[u].members[h].hidden
             /\ m.target = Some(Catalog[u].members[h].name)

(***************************************************************************)
(* C6.  As claimed: each hidden member sits immediately before the first   *)
(* scalar boolean that targets it.                                         *)
(***************************************************************************)
Targets(m, h) == ~m.hidden /\ IsScalarBool(m) /\ m.target = Some(h.name)

C6_HiddenImmediatelyBefore ==
  Returned =>
    \A u \in 1..Len(Catalog) : \A h \in 1..Len(Catalog[u].members) :
      LET ms == Catalog[u].members
      IN ms[h].hidden =>
           /\ h + 1 <= Len(ms)
           /\ Targets(ms[h + 1], ms[h])
           /\ \A i \in 1..h : ~Targets(ms[i], ms[h])

(***************************************************************************)
(* C6, amended.  Each hidden member is targeted by some scalar boolean,    *)
(* and sits at a lower index than every scalar boolean that targets it     *)
(* (not necessarily the index just below the first of them).               *)
(***************************************************************************)
C6_HiddenBeforeTargets ==
  Returned =>
    \A u \in 1..Len(Catalog) : \A h \in 1..Len(Catalog[u].members) :
      LET ms == Catalog[u].members
      IN ms[h].hidden =>
           /\ \E i \in (h + 1)..Len(ms) : Targets(ms[i], ms[h])
           /\ \A i \in 1..h : ~Targets(ms[i], ms[h])

\* A hidden member whose first targeting boolean is not its neighbour.
C6_Witness ==
  /\ Returned
  /\ \E u \in 1..Len(Catalog) : \E h \in 1..Len(Catalog[u].members) :
       LET ms == Catalog[u].members
       IN /\ ms[h].hidden
          /\ h + 1 <= Len(ms)
          /\ ~Targets(ms[h + 1], ms[h])
          /\ \E i \in (h + 2)..Len(ms) : Targets(ms[i], ms[h])

(***************************************************************************)
(* C7.  With h hidden members in a UDT, list index i < h holds the hidden  *)
(* member generated for target_num i, and every declared member follows.   *)
(***************************************************************************)
C7_HiddenAtFront ==
  Returned =>
    \A u \in 1..Len(Catalog) :
      LET ms == Catalog[u].members
          h == NumHidden(Catalog[u])
      IN /\ \A i \in 1..h : ms[i].hidden /\ ms[i].name = TargetName(Catalog[u], i - 1)
         /\ \A i \in (h + 1)..Len(ms) : ~ms[i].hidden

(***************************************************************************)
(* C8.  The catalog lists the UDTs in source order and the last is the     *)
(* parent; create_l5x emits the parent first, with one Dependency per      *)
(* other UDT in source order, then the other UDTs in source order, each    *)
(* without a Dependencies block.                                           *)
(***************************************************************************)
MemberNames(udt) == [i \in 1..Len(udt.members) |-> udt.members[i].name]

ElementNames(e) == [i \in 1..Len(e.Members) |-> e.Members[i].Name]

C8_EmissionOrder ==
  /\ pc \in {"parsed", "popped", "done"} =>
       /\ Len(Catalog) = Len(content)
       /\ \A u \in 1..Len(Catalog) : Catalog[u].name = content[u].name
  /\ pc = "done" =>
       LET n == Len(content)
           dts == Unwrap(out).DataTypes
       IN /\ Unwrap(parent_udt).name = content[n].name
          /\ Len(dts) = n
          /\ dts[1].Name = content[n].name
          /\ ElementNames(dts[1]) = MemberNames(Catalog[n])
          /\ dts[1].Dependencies = Some([u \in 1..(n - 1) |-> content[u].name])
          /\ \A u \in 1..(n - 1) :
               /\ dts[u + 1].Name = content[u].name
               /\ ElementNames(dts[u + 1]) = MemberNames(Catalog[u])
               /\ dts[u + 1].Dependencies = None

\* Three UDTs, each with a member, have been emitted.
C8_Witness ==
  /\ pc = "done"
  /\ Len(content) = 3
  /\ \A u \in 1..3 : Len(content[u].body) >= 1
  /\ Len(Unwrap(out).DataTypes) = 3

(***************************************************************************)
(* C9.  Dimension is 0 without array bounds, hi + 1 rounded up to a        *)
(* multiple of 32 for a boolean array, hi + 1 for any other array.         *)
(***************************************************************************)
\* The element emitted for UDT u of the catalog.
ElementOf(u) == IF u = Len(Catalog) THEN Unwrap(out).DataTypes[1] ELSE Unwrap(out).DataTypes[u + 1]

C9_Dimension ==
  pc = "done" =>
    \A u \in 1..Len(Catalog) : \A i \in 1..Len(Catalog[u].members) :
      LET m == Catalog[u].members[i]
          e == ElementOf(u).Members[i]
          hi == Unwrap(m.array_bounds)[2]
      IN /\ IsNone(m.array_bounds) => e.Dimension = "0"
         /\ (IsSome(m.array_bounds) /\ to_uppercase(m.data_type) = T_BOOL) =>
              \E c \in 0..(hi + 1) :
                /\ 32 * c >= hi + 1
                /\ 32 * (c - 1) < hi + 1
                /\ e.Dimension = ToString(32 * c)
         /\ (IsSome(m.array_bounds) /\ to_uppercase(m.data_type) # T_BOOL) =>
              e.Dimension = ToString(hi + 1)

\* A boolean array with bounds (1, 32) emitted with Dimension 64.
C9_Witness ==
  /\ pc = "done"
  /\ \E i \in 1..Len(Unwrap(parent_udt).members) :
       /\ Unwrap(parent_udt).members[i].array_bounds = Some(<<1, 32>>)
       /\ to_uppercase(Unwrap(parent_udt).members[i].data_type) = T_BOOL
       /\ Unwrap(out).DataTypes[1].Members[i].Dimension = "64"

(***************************************************************************)
(* C10.  A declared member is not externally writable exactly when its     *)
(* declaration carries ExternalWritable with the text "false" in any case, *)
(* not externally readable exactly when it carries ExternalVisible with    *)
(* the text "false"; ExternalAccess is "Read/Write" if writable, else      *)
(* "Read Only" if readable, else "None".                                   *)
(***************************************************************************)
QualIsFalse(d, key) ==
  \E i \in 1..Len(d.quals) : d.quals[i].key = key /\ to_lowercase(d.quals[i].val) = F_false

C10_ExternalAccess ==
  pc = "done" =>
    \A u \in 1..Len(Catalog) :
      /\ \A j \in 1..Len(Declared(Catalog[u])) :
           LET d == Matched(content[u].body)[j]
               m == Declared(Catalog[u])[j]
           IN /\ m.external_write = ~QualIsFalse(d, "ExternalWritable")
              /\ m.external_read = ~QualIsFalse(d, "ExternalVisible")
      /\ \A i \in 1..Len(Catalog[u].members) :
           LET m == Catalog[u].members[i]
               e == ElementOf(u).Members[i]
           IN /\ e.ExternalAccess = IF m.external_write THEN "Read/Write"
                                    ELSE IF m.external_read THEN "Read Only"
                                    ELSE "None"
              /\ m.hidden => e.ExternalAccess = "None"

(***************************************************************************)
(* C11.  Radix of an emitted member is "Decimal" for the recognized        *)
(* numeric, boolean and bit type names, "Char" exactly for CHAR, STRING    *)
(* and the fixed-length STRING_n names, and "NullType" for every other     *)
(* name, custom UDT references included; names compare case-insensitively. *)
(***************************************************************************)
IsDigit(c) == \E i \in 1..10 : Digits[i] = c

\* STRING, or STRING_ followed by a decimal length.
StringFamily(name) ==
  \/ to_uppercase(name) = T_STRING
  \/ /\ Len(name) > 7
     /\ to_uppercase(SubSeq(name, 1, 7)) = T_STRING \o <<"_">>
     /\ \A i \in 8..Len(name) : IsDigit(name[i])

C11_Radix ==
  pc = "done" =>
    \A u \in 1..Len(Catalog) : \A i \in 1..Len(Catalog[u].members) :
      LET e == ElementOf(u).Members[i]
          isNum == numeric_type(e.DataType)
          isChr == to_uppercase(e.DataType) = T_CHAR \/ StringFamily(e.DataType)
      IN /\ isNum => e.Radix = "Decimal"
         /\ isChr <=> e.Radix = "Char"
         /\ (~isNum /\ ~isChr) => e.Radix = "NullType"

(***************************************************************************)
(* C12.  As claimed: convert_type returns a name for every type name, and  *)
(* applying it to its own result gives that result again.                  *)
(***************************************************************************)
C12_TotalIdempotent ==
  /\ pc # "panic"
  /\ \A k \in 2..Len(type_out) : type_out[k] = type_out[1]

(***************************************************************************)
(* C12, amended.  convert_type aborts exactly on the names that contain    *)
(* "STRING[" in any case and whose first "]" is missing or lies before     *)
(* byte offset 7; on every other name it returns, a name of the table      *)
(* giving its row, STRING[n] giving STRING_n and a name without "STRING["  *)
(* outside the table unchanged; whenever the second application returns    *)
(* too, it returns the result of the first.                                *)
(***************************************************************************)
\* The argument of the k-th call.
Argument(k) == IF k = 1 THEN type_in ELSE type_out[k - 1]

HasStringBracket(x) ==
  \E i \in 1..(Len(x) - 6) : to_uppercase(SubSeq(x, i, i + 6)) = T_STRING \o <<"[">>

\* 1-based position of the first "]", 0 when there is none.
FirstClosing(x) ==
  IF \E i \in 1..Len(x) : x[i] = "]"
  THEN CHOOSE i \in 1..Len(x) : x[i] = "]" /\ \A j \in 1..(i - 1) : x[j] # "]"
  ELSE 0

MalformedStringType(x) == HasStringBracket(x) /\ FirstClosing(x) < 8

TableNames == {T_BYTE, T_WORD, T_DWORD, T_LWORD, T_TIME, T_SINT, T_INT, T_DINT, T_LINT, T_USINT, T_UINT, T_UDINT, T_ULINT, T_REAL, T_LREAL, T_STRING, T_CHAR, T_DTL}

C12_IdempotentUnlessMalformed ==
  /\ pc = "panic" => MalformedStringType(Argument(Len(type_out) + 1))
  /\ \A k \in 1..Len(type_out) : ~MalformedStringType(Argument(k))
  /\ \A k \in 2..Len(type_out) : type_out[k] = type_out[1]
  /\ Len(type_out) >= 1 =>
       /\ to_uppercase(type_in) = T_BYTE => type_out[1] = T_USINT
       /\ to_uppercase(type_in) = T_DTL => type_out[1] = T_LDT
       /\ to_uppercase(type_in) = T_TIME => type_out[1] = T_DINT
       /\ to_uppercase(type_in) = T_INT => type_out[1] = T_INT
       /\ HasStringBracket(type_in) =>
            type_out[1] = T_STRING \o <<"_">> \o SubSeq(type_in, 8, FirstClosing(type_in) - 1)
       /\ (~HasStringBracket(type_in) /\ to_uppercase(type_in) \notin TableNames) =>
            type_out[1] = type_in

\* STRING[20] has been converted twice, to STRING_20 both times.
C12_Witness ==
  /\ type_in = N_String20
  /\ type_out = <<T_STRING \o <<"_", "2", "0">>, T_STRING \o <<"_", "2", "0">>>>

(***************************************************************************)
(* C13.  A declaration whose type is written STRING[n] is matched: the     *)
(* catalog holds a member for it with data_type STRING_n, and create_l5x   *)
(* emits that member with DataType STRING_n.                               *)
(***************************************************************************)
\* STRING[n] with n a decimal length.
IsBracketString(t) ==
  /\ Len(t) >= 9
  /\ to_uppercase(SubSeq(t, 1, 7)) = T_STRING \o <<"[">>
  /\ t[Len(t)] = "]"
  /\ \A i \in 8..(Len(t) - 1) : IsDigit(t[i])

C13_StringMemberMatched ==
  pc \in {"parsed", "popped", "done"} =>
    \A u \in 1..Len(Catalog) : \A p \in 1..Len(content[u].body) :
      LET t == content[u].body[p].type
          n == SubSeq(t, 8, Len(t) - 1)
      IN IsBracketString(t) =>
           \E i \in 1..Len(Catalog[u].members) :
             /\ Catalog[u].members[i].name = MemberName(p)
             /\ Catalog[u].members[i].data_type = T_STRING \o <<"_">> \o n
             /\ pc = "done" => ElementOf(u).Members[i].DataType = T_STRING \o <<"_">> \o n

(***************************************************************************)
(* C14.  get_udts returns a catalog only when every UDT block of the input *)
(* has its required fields and every Array clause has well-formed bounds;  *)
(* otherwise the run ends in a fatal error.                                *)
(***************************************************************************)
\* An Array clause whose bounds are not two decimal numerals that fit isize.
MalformedBounds(d) ==
  /\ IsSome(d.arr)
  /\ \E b \in 1..2 :
       \/ Len(Unwrap(d.arr)[b]) = 0
       \/ \E i \in 1..Len(Unwrap(d.arr)[b]) : ~IsDigit(Unwrap(d.arr)[b][i])
       \/ Len(StripZeros(Unwrap(d.arr)[b])) > 19

C14_MalformedIsFatal ==
  pc \in {"parsed", "popped", "done"} =>
    /\ passed_over = <<>>
    /\ \A u \in 1..Len(content) : \A p \in 1..Len(content[u].body) :
         ~MalformedBounds(content[u].body[p])

(***************************************************************************)
(* C15.  Each UDT body starts with target_num = 0 and bit_num = 0 whatever *)
(* the preceding UDTs held; the first scalar boolean of every UDT has      *)
(* bit_num 0 and the target numbered 0 of its own UDT; members are only    *)
(* added to the UDT being parsed, never to an earlier one.                 *)
(***************************************************************************)
\* The step opens the next UDT of the input.
UdtStep == pc = "get_udts" /\ Len(content') = Len(content) + 1

\* The first scalar boolean among the declared members, 0 when there is none.
FirstScalarBool(decl) ==
  IF \E j \in 1..Len(decl) : IsScalarBool(decl[j])
  THEN CHOOSE j \in 1..Len(decl) : IsScalarBool(decl[j]) /\ \A i \in 1..(j - 1) : ~IsScalarBool(decl[i])
  ELSE 0

C15_CountersPerUdt ==
  /\ [][UdtStep => target_nums' = BoolTargets_new]_vars
  /\ [][pc = "get_udts" =>
          \A u \in 1..(Len(udts') - 1) : u <= Len(udts) /\ udts'[u] = udts[u]]_vars
  /\ [](Returned =>
          \A u \in 1..Len(Catalog) :
            LET decl == Declared(Catalog[u])
                j == FirstScalarBool(decl)
            IN j # 0 =>
                 /\ decl[j].bit_num = Some(0)
                 /\ decl[j].target = Some(TargetName(Catalog[u], 0)))

(***************************************************************************)
(* C16.  A member declared Array[lo..hi] of T has array_bounds (lo, hi),   *)
(* the values of the two decimal numerals; array_bounds is absent exactly  *)
(* for the members declared without an Array clause.                       *)
(***************************************************************************)
C16_ArrayBounds ==
  Returned =>
    \A u \in 1..Len(Catalog) : \A j \in 1..Len(Declared(Catalog[u])) :
      LET d == Matched(content[u].body)[j]
          m == Declared(Catalog[u])[j]
      IN IF IsSome(d.arr)
         THEN m.array_bounds = Some(<<parse_int(Unwrap(d.arr)[1]), parse_int(Unwrap(d.arr)[2])>>)
         ELSE m.array_bounds = None

(***************************************************************************)
(* C17.  Whatever the members of a UDT (scalar booleans, boolean arrays,   *)
(* others, in any order): every bit_num lies in 0..7, no two scalar        *)
(* booleans of a UDT have the same target and bit_num, a hidden member is  *)
(* the target of at most 8 scalar booleans, and no two hidden members of a *)
(* UDT have the same name, in every catalog get_udts returns.              *)
(***************************************************************************)
C17_BitSlotsDistinct ==
  /\ target_nums.bit_num \in 0..7
  /\ Returned =>
       \A u \in 1..Len(Catalog) :
         LET ms == Catalog[u].members
         IN /\ \A i \in 1..Len(ms) : IsSome(ms[i].bit_num) => Unwrap(ms[i].bit_num) \in 0..7
            /\ \A i \in 1..Len(ms) : \A k \in (i + 1)..Len(ms) :
                 (~ms[i].hidden /\ IsScalarBool(ms[i]) /\ ~ms[k].hidden /\ IsScalarBool(ms[k])) =>
                   <<ms[i].target, ms[i].bit_num>> # <<ms[k].target, ms[k].bit_num>>
            /\ \A h \in 1..Len(ms) :
                 ms[h].hidden => Cardinality({i \in 1..Len(ms) : Targets(ms[i], ms[h])}) <= 8
            /\ \A h \in 1..Len(ms) : \A k \in (h + 1)..Len(ms) :
                 (ms[h].hidden /\ ms[k].hidden) => ms[h].name # ms[k].name

\* A returned UDT declaring a boolean array among seventeen scalar booleans,
\* with a hidden member that is the target of eight of them.
C17_Witness ==
  /\ Returned
  /\ \E u \in 1..Len(Catalog) :
       LET body == Matched(content[u].body)
           ms == Catalog[u].members
       IN /\ ScalarBoolsBefore(body, Len(body)) = 17
          /\ \E j \in 2..(Len(body) - 1) : IsBoolArrayDecl(body[j])
          /\ \E h \in 1..Len(ms) :
               ms[h].hidden /\ Cardinality({i \in 1..Len(ms) : Targets(ms[i], ms[h])}) = 8

(***************************************************************************)
(* C18.  On a UDT body of scalar booleans and non-boolean members (no      *)
(* boolean array), the inline loop of main.rs and get_members of udt.rs    *)
(* build the same member list: the same hidden members at the same         *)
(* indices, the same target and bit_num for every boolean.                 *)
(***************************************************************************)
\* The member list the inline loop builds from body u of the input.
InlineMembers(u) ==
  main_members(content[u].name, content[u].body, Len(content[u].body)).udts[1].members

NoBoolArray(body) == \A j \in 1..Len(body) : ~(member_matches(body[j]) /\ IsBoolArrayDecl(body[j]))

C18_InlineEquivalent ==
  Returned =>
    \A u \in 1..Len(Catalog) :
      NoBoolArray(content[u].body) => InlineMembers(u) = Catalog[u].members

\* Sixteen scalar booleans around a non-boolean member: the inline counters
\* stand at (1, 8) where BoolTargets stands at (2, 0), and the lists agree
\* on two hidden members.
C18_Witness ==
  /\ Returned
  /\ Len(content) = 1
  /\ NoBoolArray(content[1].body)
  /\ ScalarBoolsBefore(content[1].body, Len(content[1].body)) = 16
  /\ \E j \in 2..(Len(content[1].body) - 1) : ~IsBoolDecl(content[1].body[j])
  /\ main_members(content[1].name, content[1].body, Len(content[1].body)).target_nums
       = [target_num |-> 1, bit_num |-> 8]
  /\ target_nums = [target_num |-> 2, bit_num |-> 0]
  /\ InlineMembers(1) = udts[1].members
  /\ NumHidden(udts[1]) = 2

====
